---- MODULE Spec2Model ----
(***************************************************************************)
(* A model of gettext-tools/machine-translation/prototype/ollama-spit.py:  *)
(* the 'spit' program, which resolves its command line, reads standard     *)
(* input, posts it to an ollama server and prints the streamed response.   *)
(*                                                                         *)
(* A command-line token, a url and a piece of text are sequences of        *)
(* one-character strings, so that startswith('-'), endswith('/'), the      *)
(* split at '=' and the prefix match of abbreviated options are computed.  *)
(***************************************************************************)
EXTENDS Integers, Sequences, FiniteSets

(***************************************************************************)
(* Bounds of the model.                                                    *)
(***************************************************************************)
\* the longest argument list
MaxArgs == 3
\* the largest number of lines in a response body
MaxLines == 2

(***************************************************************************)
(* Strings.                                                                *)
(***************************************************************************)
\* str.startswith
StartsWith(s, p) == Len(p) <= Len(s) /\ SubSeq(s, 1, Len(p)) = p

\* str.endswith
EndsWith(s, p) == Len(p) <= Len(s) /\ SubSeq(s, Len(s) - Len(p) + 1, Len(s)) = p

\* the index of the first occurrence of character c in s, 0 when absent
IndexOf(s, c) ==
    IF \E i \in 1..Len(s) : s[i] = c
    THEN CHOOSE i \in 1..Len(s) : s[i] = c /\ \A j \in 1..(i - 1) : s[j] # c
    ELSE 0

Digits == {"0", "1", "2", "3", "4", "5", "6", "7", "8", "9"}

AllDigits(s) == \A i \in 1..Len(s) : s[i] \in Digits

(***************************************************************************)
(* The parser built by main(): its option strings and their actions.       *)
(***************************************************************************)
OptUrl == <<"-", "-", "u", "r", "l">>
OptModel == <<"-", "-", "m", "o", "d", "e", "l">>
OptHelp == <<"-", "-", "h", "e", "l", "p">>
OptHel == <<"-", "-", "h", "e", "l">>
OptHe == <<"-", "-", "h", "e">>
OptH == <<"-", "-", "h">>
DoubleDash == <<"-", "-">>

\* the spellings of add_argument('--help', '--hel', '--he', '--h')
HelpSpellings == {OptHelp, OptHel, OptHe, OptH}

\* parser._option_string_actions: the keys
OptionStrings == {OptUrl, OptModel} \cup HelpSpellings

\* parser._option_string_actions: the dest of the action of an option string
DestOf(opt) ==
    IF opt = OptUrl THEN "url"
    ELSE IF opt = OptModel THEN "model"
    ELSE "help"

\* default='http://localhost:11434'
DefaultUrl == <<"h", "t", "t", "p", ":", "/", "/", "l", "o", "c", "a", "l", "h", "o", "s", "t", ":", "1", "1", "4", "3", "4">>

(***************************************************************************)
(* argparse, as main() configures it (prefix_chars '-', allow_abbrev,      *)
(* no negative-number-like option): parse_known_args of line 58.           *)
(***************************************************************************)
Positional == [kind |-> "A", dest |-> "none", explicit |-> <<>>]

\* an option tuple: the dest of its action ("none": no such option) and the
\* explicit argument after '=', <<>> for None and <<arg>> for arg
Optional(dest, explicit) == [kind |-> "O", dest |-> dest, explicit |-> explicit]

\* the part of tok before its first '=' (all of tok when it has none)
BeforeEq(tok) == IF IndexOf(tok, "=") = 0 THEN tok ELSE SubSeq(tok, 1, IndexOf(tok, "=") - 1)

\* the explicit argument of tok: <<>> when tok has no '=', else <<the rest>>
AfterEq(tok) == IF IndexOf(tok, "=") = 0 THEN <<>> ELSE <<SubSeq(tok, IndexOf(tok, "=") + 1, Len(tok))>>

\* _get_option_tuples: the option strings tok abbreviates. Only a token of two
\* leading dashes can: every option string starts with '--'.
OptionTuples(tok) ==
    IF tok[2] = "-"
    THEN {opt \in OptionStrings : StartsWith(opt, BeforeEq(tok))}
    ELSE {opt \in OptionStrings : opt = SubSeq(tok, 1, 2) \/ StartsWith(opt, tok)}

\* _negative_number_matcher: '^-\d+$|^-\d*\.\d+$'
NegativeNumberLike(tok) ==
    LET rest == SubSeq(tok, 2, Len(tok))
        dot == IndexOf(rest, ".")
    IN  /\ Len(tok) >= 2
        /\ tok[1] = "-"
        /\ \/ AllDigits(rest)
           \/ /\ dot > 0
              /\ dot < Len(rest)
              /\ AllDigits(SubSeq(rest, 1, dot - 1))
              /\ AllDigits(SubSeq(rest, dot + 1, Len(rest)))

\* _parse_optional: is the token an option, and which
ParseOptional(tok) ==
    IF tok = <<>> THEN Positional
    ELSE IF tok[1] # "-" THEN Positional
    ELSE IF tok \in OptionStrings THEN Optional(DestOf(tok), <<>>)
    ELSE IF Len(tok) = 1 THEN Positional
    ELSE IF IndexOf(tok, "=") > 0 /\ BeforeEq(tok) \in OptionStrings
         THEN Optional(DestOf(BeforeEq(tok)), AfterEq(tok))
    ELSE IF Cardinality(OptionTuples(tok)) > 1
         THEN [kind |-> "ambiguous", dest |-> "none", explicit |-> <<>>]
    ELSE IF Cardinality(OptionTuples(tok)) = 1
         THEN Optional(DestOf(CHOOSE opt \in OptionTuples(tok) : TRUE),
                       IF tok[2] = "-" THEN AfterEq(tok) ELSE <<>>)
    ELSE IF NegativeNumberLike(tok) THEN Positional
    ELSE IF \E i \in 1..Len(tok) : tok[i] = " " THEN Positional
    ELSE Optional("none", <<>>)

\* arg_strings_pattern: 'O' for an option, 'A' for an argument, '-' for the
\* first '--'; everything after the first '--' is an argument
ArgStringsPattern(argv) ==
    [i \in 1..Len(argv) |->
        IF \E j \in 1..(i - 1) : argv[j] = DoubleDash THEN "A"
        ELSE IF argv[i] = DoubleDash THEN "-"
        ELSE ParseOptional(argv[i]).kind]

\* the length of the match of '[A-]*' at index i of the pattern
RECURSIVE ArgRun(_, _)
ArgRun(pat, i) ==
    IF i > Len(pat) \/ pat[i] \notin {"A", "-"} THEN 0 ELSE 1 + ArgRun(pat, i + 1)

\* _get_values: strip out the first '--'
RECURSIVE RemoveFirstDoubleDash(_)
RemoveFirstDoubleDash(args) ==
    IF args = <<>> THEN <<>>
    ELSE IF Head(args) = DoubleDash THEN Tail(args)
    ELSE <<Head(args)>> \o RemoveFirstDoubleDash(Tail(args))

\* The namespace and the parser's progress. help is FALSE for None and TRUE for
\* True; model is <<>> for None and <<v>> for the list [v] of nargs=1;
\* positionals tells that non_option_arguments is still to be matched;
\* error tells that parser.error() was called.
InitialNamespace ==
    [help |-> FALSE, model |-> <<>>, url |-> DefaultUrl,
     non_option_arguments |-> <<>>, extras |-> <<>>,
     positionals |-> TRUE, error |-> FALSE]

\* consume_positionals: the one positional, nargs='*', takes the whole run of
\* arguments at i and is then used up
ConsumePositionals(ns, argv, pat, i) ==
    IF ns.positionals
    THEN [ns EXCEPT !.non_option_arguments =
                        RemoveFirstDoubleDash(SubSeq(argv, i, i + ArgRun(pat, i) - 1)),
                    !.positionals = FALSE]
    ELSE ns

PositionalsEnd(ns, pat, i) == IF ns.positionals THEN i + ArgRun(pat, i) ELSE i

\* consume_optional and take_action at index i of an option
ConsumeOptional(ns, argv, pat, i) ==
    LET tup == ParseOptional(argv[i])
        follows == i + 1 <= Len(argv) /\ pat[i + 1] = "A"
    IN  IF tup.dest = "none" THEN [ns EXCEPT !.extras = Append(@, argv[i])]
        ELSE IF tup.dest = "help"
             THEN IF tup.explicit # <<>> THEN [ns EXCEPT !.error = TRUE]
                  ELSE [ns EXCEPT !.help = TRUE]
        ELSE IF tup.explicit # <<>>
             THEN IF tup.dest = "url" THEN [ns EXCEPT !.url = tup.explicit[1]]
                  ELSE [ns EXCEPT !.model = <<tup.explicit[1]>>]
        ELSE IF ~follows THEN [ns EXCEPT !.error = TRUE]
        ELSE IF tup.dest = "url" THEN [ns EXCEPT !.url = argv[i + 1]]
        ELSE [ns EXCEPT !.model = <<argv[i + 1]>>]

\* the index at which the option's string arguments stopped
OptionalStop(argv, pat, i) ==
    LET tup == ParseOptional(argv[i])
    IN  IF tup.dest \in {"none", "help"} \/ tup.explicit # <<>> THEN i + 1 ELSE i + 2

\* _parse_known_args: positionals and optionals consumed alternately from
\* index i, then the positionals after the last option, the rest being extras
RECURSIVE ParseFrom(_, _, _, _)
ParseFrom(ns, argv, pat, i) ==
    LET option_string_indices == {j \in 1..Len(argv) : pat[j] = "O"}
        later == {j \in option_string_indices : j >= i}
        next == CHOOSE j \in later : \A k \in later : j <= k
    IN  IF ns.error THEN ns
        ELSE IF later # {}
        THEN IF i # next /\ ns.positionals
             THEN ParseFrom(ConsumePositionals(ns, argv, pat, i), argv, pat,
                            PositionalsEnd(ns, pat, i))
             ELSE ParseFrom(ConsumeOptional(
                                [ns EXCEPT !.extras = @ \o SubSeq(argv, i, next - 1)],
                                argv, pat, next),
                            argv, pat, OptionalStop(argv, pat, next))
        ELSE [ConsumePositionals(ns, argv, pat, i)
                 EXCEPT !.extras = @ \o SubSeq(argv, PositionalsEnd(ns, pat, i), Len(argv))]

\* parser.parse_known_args(): the namespace and the unhandled arguments, or the
\* error that makes argparse print its usage and exit with status 2
ParseKnownArgs(argv) ==
    IF \E i \in 1..Len(argv) : ArgStringsPattern(argv)[i] = "ambiguous"
    THEN [InitialNamespace EXCEPT !.error = TRUE]
    ELSE ParseFrom(InitialNamespace, argv, ArgStringsPattern(argv), 1)

(***************************************************************************)
(* Texts of the program and of its environment.                            *)
(***************************************************************************)
\* the usage message of lines 62-74, kept in one piece
UsageText == <<"Usage: spit [OPTION...] Passes standard input to an ollama instance and prints the response.">>

\* the default end of print()
Newline == <<"\n">>

\* 'api/generate' of line 115
ApiGenerate == <<"a", "p", "i", "/", "g", "e", "n", "e", "r", "a", "t", "e">>

Slash == <<"/">>

\* A line of stderr: the message, the argument it names, whether the
\* "Try 'spit --help'" hint follows, a status code, a response body.
Diagnostic(message, arg, hint) ==
    [message |-> message, arg |-> arg, hint |-> hint, code |-> 0, body |-> <<>>]

\* lines 80-81
UnrecognizedOption(arg) == Diagnostic("spit: Unrecognized option", arg, TRUE)

\* line 88
MissingModel == Diagnostic("spit: missing --model option", <<>>, FALSE)

\* lines 92-93
TooManyArguments == Diagnostic("spit: too many arguments", <<>>, TRUE)

\* parser.error(): argparse's usage line and error message
ArgparseError == Diagnostic("usage: spit --help / spit: error", <<>>, FALSE)

\* line 117
StatusLine(code) ==
    [message |-> "Status:", arg |-> <<>>, hint |-> FALSE, code |-> code, body |-> <<>>]

\* line 119
BodyLine(body) ==
    [message |-> "Body:", arg |-> <<>>, hint |-> FALSE, code |-> 0, body |-> body]

\* the traceback of an exception nothing catches
Traceback(exception) == Diagnostic(exception, <<>>, FALSE)

(***************************************************************************)
(* The command lines, the standard inputs and the responses of the model.  *)
(***************************************************************************)
ValueH == <<"h">>
ValueHSlash == <<"h", "/">>
ModelEqH == <<"-", "-", "m", "o", "d", "e", "l", "=", "h">>
LongFoo == <<"-", "-", "f", "o", "o">>
ShortX == <<"-", "x">>
Dash == <<"-">>
DashOne == <<"-", "1">>

Tokens ==
    HelpSpellings \cup
    {OptModel, OptUrl, ModelEqH, ValueH, ValueHSlash, LongFoo, ShortX, Dash, DashOne, DoubleDash}

ArgLists == UNION {[1..n -> Tokens] : n \in 0..MaxArgs}

StdinTexts == {<<>>, <<"h", "e", "l", "l", "o">>}

\* lines of a response body, as they are on the wire
LineHel == "{\"response\":\"Hel\"}"
LineLoDone == "{\"response\":\"lo\",\"done\":true}"
LineNoResponse == "{\"done\":false}"
LineNotFound == "not found"
LineEmpty == ""
LineNumber == "5"

Lines == {LineHel, LineLoDone, LineNoResponse, LineNotFound, LineEmpty, LineNumber}

Bodies == UNION {[1..n -> Lines] : n \in 0..MaxLines}

StatusCodes == {200, 399, 400, 404}

\* a json.loads that takes a blank line for an object without keys
JsonLoadsSkippingBlank(line) ==
    IF line = LineHel
    THEN [valid |-> TRUE, type |-> "object", has_response |-> TRUE,
          response |-> <<"H", "e", "l">>, done |-> FALSE]
    ELSE IF line = LineLoDone
    THEN [valid |-> TRUE, type |-> "object", has_response |-> TRUE,
          response |-> <<"l", "o">>, done |-> TRUE]
    ELSE IF line \in {LineNoResponse, LineEmpty}
    THEN [valid |-> TRUE, type |-> "object", has_response |-> FALSE,
          response |-> <<>>, done |-> FALSE]
    ELSE IF line = LineNumber
    THEN [valid |-> TRUE, type |-> "number", has_response |-> FALSE,
          response |-> <<>>, done |-> FALSE]
    ELSE [valid |-> FALSE, type |-> "none", has_response |-> FALSE,
          response |-> <<>>, done |-> FALSE]

\* json.loads(line.decode('utf-8')): the value of a line; valid is FALSE for a
\* JSONDecodeError. done is the line's completion flag, which main() never reads.
JsonLoads(line) ==
    IF line = LineHel
    THEN [valid |-> TRUE, type |-> "object", has_response |-> TRUE,
          response |-> <<"H", "e", "l">>, done |-> FALSE]
    ELSE IF line = LineLoDone
    THEN [valid |-> TRUE, type |-> "object", has_response |-> TRUE,
          response |-> <<"l", "o">>, done |-> TRUE]
    ELSE IF line = LineNoResponse
    THEN [valid |-> TRUE, type |-> "object", has_response |-> FALSE,
          response |-> <<>>, done |-> FALSE]
    ELSE IF line = LineNumber
    THEN [valid |-> TRUE, type |-> "number", has_response |-> FALSE,
          response |-> <<>>, done |-> FALSE]
    ELSE [valid |-> FALSE, type |-> "none", has_response |-> FALSE,
          response |-> <<>>, done |-> FALSE]

\* part.get('response', '')
GetResponse(part) == IF part.has_response THEN part.response ELSE <<>>

NoPart ==
    [valid |-> FALSE, type |-> "none", has_response |-> FALSE, response |-> <<>>,
     done |-> FALSE]

NoResponse == [status_code |-> 0, body |-> <<>>]

\* a sanitizer that appends '/' whatever the url ends with
SanitizeUrlAlways(u) == u \o Slash

\* lines 98-100
SanitizeUrl(u) == IF ~EndsWith(u, Slash) THEN u \o Slash ELSE u

(***************************************************************************)
(* The run of main().                                                      *)
(***************************************************************************)
VARIABLES
    argv,           \* sys.argv[1:]
    pc,             \* the statement main() is at
    cmdargs,        \* the namespace of line 58
    unhandled,      \* the unhandled arguments of line 58
    url,            \* the url of lines 98-100
    model,          \* the model of line 102
    input,          \* the contents of standard input, <<text>> once read
    payload,        \* the payload of lines 110-113, <<payload>> once built
    requests,       \* the requests posted: target and data
    response,       \* the response of line 115
    nread,          \* the number of lines iter_lines() has yielded
    line,           \* the line of the loop of line 124
    part,           \* the part of line 125
    stdout_buffer,  \* what is written to standard output and not yet flushed
    stdout,         \* what standard output has received
    stderr,         \* the diagnostics written to standard error
    exitcode,       \* the exit status, -1 while main() runs
    exception       \* the exception that ended the run, "none" if none

vars == <<argv, pc, cmdargs, unhandled, url, model, input, payload, requests,
          response, nread, line, part, stdout_buffer, stdout, stderr, exitcode,
          exception>>

Init ==
    /\ argv \in ArgLists
    /\ pc = "parse_known_args"
    /\ cmdargs = InitialNamespace
    /\ unhandled = <<>>
    /\ url = <<>>
    /\ model = <<>>
    /\ input = <<>>
    /\ payload = <<>>
    /\ requests = <<>>
    /\ response = NoResponse
    /\ nread = 0
    /\ line = ""
    /\ part = NoPart
    /\ stdout_buffer = <<>>
    /\ stdout = <<>>
    /\ stderr = <<>>
    /\ exitcode = -1
    /\ exception = "none"

\* print(text, end='', flush=flush): what standard output has received and
\* what is still buffered after the call
PrintTo(out, buffer, text, flush) ==
    IF flush
    THEN [out |-> out \o buffer \o text, buffer |-> <<>>]
    ELSE [out |-> out, buffer |-> buffer \o text]

\* the call of line 126 without its flush
PrintFragmentUnflushed(out, buffer, text) == PrintTo(out, buffer, text, FALSE)

\* the call of line 126: print(part.get('response', ''), end='', flush=True)
PrintFragment(out, buffer, text) == PrintTo(out, buffer, text, TRUE)

\* sys.exit(code), or the end of main(), after messages went to standard error
\* and written was printed without a flush; the interpreter flushes standard
\* output when it exits
SysExit(code, messages, written) ==
    /\ pc' = "exited"
    /\ exitcode' = code
    /\ stderr' = stderr \o messages
    /\ stdout' = stdout \o PrintTo(stdout, stdout_buffer, written, FALSE).buffer
    /\ stdout_buffer' = <<>>

\* an exception nothing catches: traceback on standard error, exit status 1
Raise(name) ==
    /\ SysExit(1, <<Traceback(name)>>, <<>>)
    /\ exception' = name

\* line 58
ParseArgs ==
    /\ pc = "parse_known_args"
    /\ LET ns == ParseKnownArgs(argv)
       IN  IF ns.error
           THEN /\ SysExit(2, <<ArgparseError>>, <<>>)
                /\ UNCHANGED <<cmdargs, unhandled>>
           ELSE /\ cmdargs' = [ns EXCEPT !.extras = <<>>]
                /\ unhandled' = ns.extras
                /\ pc' = "help"
                /\ UNCHANGED <<stdout_buffer, stdout, stderr, exitcode>>
    /\ UNCHANGED <<argv, url, model, input, payload, requests, response, nread,
                   line, part, exception>>

\* lines 61-75
HandleHelp ==
    /\ pc = "help"
    /\ IF cmdargs.help
       THEN SysExit(0, <<>>, UsageText \o Newline)
       ELSE /\ pc' = "unhandled"
            /\ UNCHANGED <<stdout_buffer, stdout, stderr, exitcode>>
    /\ UNCHANGED <<argv, cmdargs, unhandled, url, model, input, payload, requests,
                   response, nread, line, part, exception>>

\* the first unhandled argument that starts with '-', <<>> if there is none
FirstDashed(args) ==
    LET dashed == {i \in 1..Len(args) : StartsWith(args[i], Dash)}
    IN  IF dashed = {} THEN <<>>
        ELSE <<args[CHOOSE i \in dashed : \A j \in dashed : i <= j]>>

\* lines 78-85
ReportUnhandled ==
    /\ pc = "unhandled"
    /\ IF FirstDashed(unhandled) # <<>>
       THEN /\ SysExit(1, <<UnrecognizedOption(FirstDashed(unhandled)[1])>>, <<>>)
            /\ UNCHANGED cmdargs
       ELSE /\ cmdargs' = [cmdargs EXCEPT !.non_option_arguments = @ \o unhandled]
            /\ pc' = "model"
            /\ UNCHANGED <<stdout_buffer, stdout, stderr, exitcode>>
    /\ UNCHANGED <<argv, unhandled, url, model, input, payload, requests, response,
                   nread, line, part, exception>>

\* a test of line 87 that lets a run with non-option arguments through
ModelMissingAndNoArguments(ns) == ns.model = <<>> /\ ns.non_option_arguments = <<>>

\* the test of line 87: cmdargs.model == None
ModelMissing(ns) == ns.model = <<>>

\* lines 87-89
CheckModel ==
    /\ pc = "model"
    /\ IF ModelMissing(cmdargs)
       THEN SysExit(1, <<MissingModel>>, <<>>)
       ELSE /\ pc' = "non_option_arguments"
            /\ UNCHANGED <<stdout_buffer, stdout, stderr, exitcode>>
    /\ UNCHANGED <<argv, cmdargs, unhandled, url, model, input, payload, requests,
                   response, nread, line, part, exception>>

\* lines 91-95
CheckNonOptionArguments ==
    /\ pc = "non_option_arguments"
    /\ IF Len(cmdargs.non_option_arguments) > 0
       THEN SysExit(1, <<TooManyArguments>>, <<>>)
       ELSE /\ pc' = "sanitize"
            /\ UNCHANGED <<stdout_buffer, stdout, stderr, exitcode>>
    /\ UNCHANGED <<argv, cmdargs, unhandled, url, model, input, payload, requests,
                   response, nread, line, part, exception>>

\* lines 97-102
Sanitize ==
    /\ pc = "sanitize"
    /\ url' = SanitizeUrl(cmdargs.url)
    /\ model' = cmdargs.model[1]
    /\ pc' = "stdin"
    /\ UNCHANGED <<argv, cmdargs, unhandled, input, payload, requests, response,
                   nread, line, part, stdout_buffer, stdout, stderr, exitcode,
                   exception>>

\* line 105
ReadStdin ==
    /\ pc = "stdin"
    /\ \E text \in StdinTexts : input' = <<text>>
    /\ pc' = "payload"
    /\ UNCHANGED <<argv, cmdargs, unhandled, url, model, payload, requests, response,
                   nread, line, part, stdout_buffer, stdout, stderr, exitcode,
                   exception>>

\* lines 110-113: the JSON object of the two strings
BuildPayload ==
    /\ pc = "payload"
    /\ payload' = <<[model |-> model, prompt |-> input[1]]>>
    /\ pc' = "post"
    /\ UNCHANGED <<argv, cmdargs, unhandled, url, model, input, requests, response,
                   nread, line, part, stdout_buffer, stdout, stderr, exitcode,
                   exception>>

\* the target of line 115
RequestTarget(u) == u \o ApiGenerate

\* a post that is tried a second time when the transport fails
PostWithRetry ==
    /\ pc = "post"
    /\ \/ /\ requests' = Append(requests, [target |-> RequestTarget(url), data |-> payload[1]])
          /\ \E code \in StatusCodes, body \in Bodies :
                response' = [status_code |-> code, body |-> body]
          /\ pc' = "status"
          /\ UNCHANGED <<stdout_buffer, stdout, stderr, exitcode, exception>>
       \/ /\ requests' = requests \o
                  << [target |-> RequestTarget(url), data |-> payload[1]],
                     [target |-> RequestTarget(url), data |-> payload[1]] >>
          /\ Raise("ConnectionError")
          /\ UNCHANGED response
    /\ UNCHANGED <<argv, cmdargs, unhandled, url, model, input, payload, nread, line,
                   part>>

\* line 115: the server answers, or the transport fails
Post ==
    /\ pc = "post"
    /\ requests' = Append(requests, [target |-> RequestTarget(url), data |-> payload[1]])
    /\ \/ /\ \E code \in StatusCodes, body \in Bodies :
                response' = [status_code |-> code, body |-> body]
          /\ pc' = "status"
          /\ UNCHANGED <<stdout_buffer, stdout, stderr, exitcode, exception>>
       \/ /\ Raise("ConnectionError")
          /\ UNCHANGED response
    /\ UNCHANGED <<argv, cmdargs, unhandled, url, model, input, payload, nread, line,
                   part>>

\* what lines 116-117 write
StatusReport(code) == IF code # 200 THEN <<StatusLine(code)>> ELSE <<>>

\* a test of line 118 that lets status 400 through
IsRejectedAbove(code) == code > 400

\* the test of line 118
IsRejected(code) == code >= 400

\* lines 116-120
CheckStatus ==
    /\ pc = "status"
    /\ IF IsRejected(response.status_code)
       THEN SysExit(1, StatusReport(response.status_code) \o <<BodyLine(response.body)>>, <<>>)
       ELSE /\ stderr' = stderr \o StatusReport(response.status_code)
            /\ pc' = "iter_lines"
            /\ UNCHANGED <<stdout_buffer, stdout, exitcode>>
    /\ UNCHANGED <<argv, cmdargs, unhandled, url, model, input, payload, requests,
                   response, nread, line, part, exception>>

\* a loop that stops after a line whose completion flag is set
IterLinesUntilDone ==
    /\ pc = "iter_lines"
    /\ \/ /\ nread < Len(response.body)
          /\ ~part.done
          /\ line' = response.body[nread + 1]
          /\ nread' = nread + 1
          /\ pc' = "loads"
          /\ UNCHANGED <<stdout_buffer, stdout, stderr, exitcode, exception>>
       \/ /\ nread = Len(response.body) \/ part.done
          /\ SysExit(0, <<>>, <<>>)
          /\ UNCHANGED <<line, nread, exception>>
       \/ /\ Raise("ChunkedEncodingError")
          /\ UNCHANGED <<line, nread>>
    /\ UNCHANGED <<argv, cmdargs, unhandled, url, model, input, payload, requests,
                   response, part>>

\* line 124: the next line, the end of the stream, or a connection that drops
IterLines ==
    /\ pc = "iter_lines"
    /\ \/ /\ nread < Len(response.body)
          /\ line' = response.body[nread + 1]
          /\ nread' = nread + 1
          /\ pc' = "loads"
          /\ UNCHANGED <<stdout_buffer, stdout, stderr, exitcode, exception>>
       \/ /\ nread = Len(response.body)
          /\ SysExit(0, <<>>, <<>>)
          /\ UNCHANGED <<line, nread, exception>>
       \/ /\ Raise("ChunkedEncodingError")
          /\ UNCHANGED <<line, nread>>
    /\ UNCHANGED <<argv, cmdargs, unhandled, url, model, input, payload, requests,
                   response, part>>

\* line 125
Loads ==
    /\ pc = "loads"
    /\ IF JsonLoads(line).valid
       THEN /\ part' = JsonLoads(line)
            /\ pc' = "print"
            /\ UNCHANGED <<stdout_buffer, stdout, stderr, exitcode, exception>>
       ELSE /\ Raise("JSONDecodeError")
            /\ UNCHANGED part
    /\ UNCHANGED <<argv, cmdargs, unhandled, url, model, input, payload, requests,
                   response, nread, line>>

\* line 126
PrintPart ==
    /\ pc = "print"
    /\ IF part.type = "object"
       THEN /\ stdout' = PrintFragment(stdout, stdout_buffer, GetResponse(part)).out
            /\ stdout_buffer' = PrintFragment(stdout, stdout_buffer, GetResponse(part)).buffer
            /\ pc' = "iter_lines"
            /\ UNCHANGED <<stderr, exitcode, exception>>
       ELSE Raise("AttributeError")
    /\ UNCHANGED <<argv, cmdargs, unhandled, url, model, input, payload, requests,
                   response, nread, line, part>>

Next ==
    \/ ParseArgs
    \/ HandleHelp
    \/ ReportUnhandled
    \/ CheckModel
    \/ CheckNonOptionArguments
    \/ Sanitize
    \/ ReadStdin
    \/ BuildPayload
    \/ Post
    \/ CheckStatus
    \/ IterLines
    \/ Loads
    \/ PrintPart

Spec == Init /\ [][Next]_vars

(***************************************************************************)
(* What the claims speak of, stated on the command line and on the wire    *)
(* and not through the operators of the run above.                         *)
(***************************************************************************)
Exited == pc = "exited"

\* the argument list holds a help spelling
HasHelpSpelling(args) == \E i \in 1..Len(args) : args[i] \in HelpSpellings

\* the argument list holds --model, spelled out, abbreviated or with '=value'
ModelSupplied(args) ==
    \E i \in 1..Len(args) :
        /\ Len(BeforeEq(args[i])) >= 3
        /\ StartsWith(OptModel, BeforeEq(args[i]))

\* the token shapes of an unrecognized option: --foo, -x, a lone '-', -1
UnrecognizedShapes == {LongFoo, ShortX, Dash, DashOne}

\* the tokens of an unrecognized shape that do not stand where the value of
\* --url or --model is expected
UnrecognizedTokens(args) ==
    {args[i] : i \in {j \in 1..Len(args) :
        /\ args[j] \in UnrecognizedShapes
        /\ j = 1 \/ args[j - 1] \notin {OptUrl, OptModel}}}

\* the response value of a line, the empty string for a line without one
FragmentOf(l) ==
    IF l = LineHel THEN <<"H", "e", "l">>
    ELSE IF l = LineLoDone THEN <<"l", "o">>
    ELSE <<>>

\* the concatenation of the fragments of the first n lines
RECURSIVE Fragments(_, _)
Fragments(lines, n) ==
    IF n = 0 THEN <<>> ELSE Fragments(lines, n - 1) \o FragmentOf(lines[n])

IsValidJson(l) == l \in {LineHel, LineLoDone, LineNoResponse, LineNumber}

IsJsonObject(l) == l \in {LineHel, LineLoDone, LineNoResponse}

\* the index of the first line that is not valid JSON, 0 if there is none
FirstInvalidJson(lines) ==
    IF \A i \in 1..Len(lines) : IsValidJson(lines[i]) THEN 0
    ELSE CHOOSE i \in 1..Len(lines) :
            /\ ~IsValidJson(lines[i])
            /\ \A j \in 1..(i - 1) : IsValidJson(lines[j])

\* the index of the first line that is not a JSON object, 0 if there is none
FirstNonObject(lines) ==
    IF \A i \in 1..Len(lines) : IsJsonObject(lines[i]) THEN 0
    ELSE CHOOSE i \in 1..Len(lines) :
            /\ ~IsJsonObject(lines[i])
            /\ \A j \in 1..(i - 1) : IsJsonObject(lines[j])

\* the exceptions of the transport
TransportErrors == {"ConnectionError", "ChunkedEncodingError"}

\* the diagnostics of a usage error
UsageErrors ==
    {MissingModel, TooManyArguments, ArgparseError} \cup
    {UnrecognizedOption(tok) : tok \in Tokens}

\* the run ended in help or in a usage error
EndedInArgumentResolution ==
    /\ Exited
    /\ \/ cmdargs.help
       \/ \E d \in UsageErrors : stderr = <<d>>

(***************************************************************************)
(* C1: every argument list that holds a help spelling, at any position and *)
(* whatever else it holds, makes the run print the usage text to standard  *)
(* output, exit with code 0 and issue no request.                          *)
(* Fails on the code: argparse rejects the list with status 2 when the     *)
(* help spelling stands where the value of --model or --url is expected,   *)
(* and takes it for an argument after '--'.                                *)
(***************************************************************************)
C1_HelpAnywhere ==
    (Exited /\ HasHelpSpelling(argv)) =>
        /\ exitcode = 0
        /\ stdout = UsageText \o Newline
        /\ requests = <<>>

(***************************************************************************)
(* C2: for a status-200 response whose lines are all JSON objects and      *)
(* whose stream reaches its end, standard output at the end of the run is  *)
(* exactly the concatenation, in arrival order, of the response values of  *)
(* the lines (empty for a line without the key), every line has been       *)
(* consumed whatever its completion flag, and the exit code is 0.          *)
(***************************************************************************)
C2_OutputIsConcatenation ==
    ( /\ Exited
      /\ response.status_code = 200
      /\ \A i \in 1..Len(response.body) : IsJsonObject(response.body[i])
      /\ exception \notin TransportErrors ) =>
        /\ stdout = Fragments(response.body, Len(response.body))
        /\ stdout_buffer = <<>>
        /\ nread = Len(response.body)
        /\ exitcode = 0

C2_Witness ==
    /\ Exited
    /\ response.status_code = 200
    /\ response.body = <<LineLoDone, LineLoDone>>
    /\ stdout = <<"l", "o", "l", "o">>
    /\ exitcode = 0

(***************************************************************************)
(* C3: output is incremental. Whenever the loop is about to read a line,   *)
(* standard output has received (flushed) exactly the concatenation of the *)
(* fragments of the lines read so far and nothing is buffered; while line  *)
(* k is being decoded and printed it has received those of lines 1..k-1.   *)
(***************************************************************************)
C3_FlushedBeforeNextRead ==
    /\ pc = "iter_lines" =>
          /\ stdout = Fragments(response.body, nread)
          /\ stdout_buffer = <<>>
    /\ pc \in {"loads", "print"} =>
          /\ stdout = Fragments(response.body, nread - 1)
          /\ stdout_buffer = <<>>

C3_Witness ==
    /\ pc = "iter_lines"
    /\ nread = 1
    /\ Len(response.body) = 2
    /\ stdout = <<"H", "e", "l">>

(***************************************************************************)
(* C4: for a response whose status code is 400 or greater the run writes   *)
(* the status code and the full body to standard error, exits with code 1, *)
(* writes nothing to standard output, never iterates the body and posts no *)
(* second request.                                                         *)
(***************************************************************************)
C4_RejectedResponse ==
    response.status_code >= 400 =>
        /\ pc \in {"status", "exited"}
        /\ nread = 0
        /\ stdout = <<>> /\ stdout_buffer = <<>>
        /\ Len(requests) = 1
        /\ Exited =>
              /\ exitcode = 1
              /\ stderr = <<StatusLine(response.status_code), BodyLine(response.body)>>

C4_Witness ==
    /\ Exited
    /\ response.status_code = 404
    /\ response.body = <<LineNotFound>>
    /\ exitcode = 1
    /\ stderr = <<StatusLine(404), BodyLine(<<LineNotFound>>)>>

(***************************************************************************)
(* C5, as claimed: every argument list in which --model is not supplied    *)
(* makes the run exit with code 1, write "missing --model option" to       *)
(* standard error and make no network call.                                *)
(***************************************************************************)
C5_MissingModelAlways ==
    (Exited /\ ~ModelSupplied(argv)) =>
        /\ exitcode = 1
        /\ stderr = <<MissingModel>>
        /\ requests = <<>>

(***************************************************************************)
(* C5, amended: an argument list in which --model is not supplied never    *)
(* leads to a network call nor to the "too many arguments" error; the run  *)
(* ends in help (exit 0), in an error of argparse (exit 2), in             *)
(* "Unrecognized option" (exit 1) or in "missing --model option" (exit 1), *)
(* and in the last of these whenever no help option was parsed, argparse   *)
(* accepted the list and no unhandled argument starts with '-'.            *)
(***************************************************************************)
C5_MissingModel ==
    ~ModelSupplied(argv) =>
        /\ requests = <<>>
        /\ input = <<>>
        /\ Exited =>
              \/ /\ cmdargs.help
                 /\ exitcode = 0
                 /\ stderr = <<>>
              \/ /\ exitcode = 2
                 /\ stderr = <<ArgparseError>>
              \/ /\ exitcode = 1
                 /\ FirstDashed(unhandled) # <<>>
                 /\ stderr = <<UnrecognizedOption(FirstDashed(unhandled)[1])>>
              \/ /\ exitcode = 1
                 /\ ~cmdargs.help
                 /\ FirstDashed(unhandled) = <<>>
                 /\ stderr = <<MissingModel>>

C5_Witness ==
    /\ Exited
    /\ argv = <<OptUrl, ValueH, ValueH>>
    /\ exitcode = 1
    /\ stderr = <<MissingModel>>
    /\ requests = <<>>

(***************************************************************************)
(* C6: every argument list without a help spelling that holds a token of   *)
(* an unrecognized shape (--foo, -x, a lone '-', -1) makes the run write   *)
(* "Unrecognized option" naming such a token, with the hint, exit with     *)
(* code 1 and make no network call, whether or not --model is supplied.    *)
(* Fails on the code: argparse takes a lone '-' and a dash-digit token for *)
(* non-option arguments, so the run reports "too many arguments" or        *)
(* "missing --model option" instead.                                       *)
(***************************************************************************)
C6_UnrecognizedOption ==
    (Exited /\ ~HasHelpSpelling(argv) /\ UnrecognizedTokens(argv) # {}) =>
        /\ exitcode = 1
        /\ \E tok \in UnrecognizedTokens(argv) : stderr = <<UnrecognizedOption(tok)>>
        /\ requests = <<>>

(***************************************************************************)
(* C7: the request target is the given url, less one trailing '/' if it    *)
(* has one, followed by '/api/generate': a url and the same url with '/'   *)
(* appended give the same target, and sanitizing a sanitized url changes   *)
(* nothing.                                                                *)
(***************************************************************************)
C7_RequestTarget ==
    requests # <<>> =>
        LET given == cmdargs.url
            base == IF EndsWith(given, Slash) THEN SubSeq(given, 1, Len(given) - 1) ELSE given
        IN  /\ requests[1].target = base \o Slash \o ApiGenerate
            /\ RequestTarget(SanitizeUrl(base)) = RequestTarget(SanitizeUrl(base \o Slash))
            /\ SanitizeUrl(SanitizeUrl(given)) = SanitizeUrl(given)
            /\ url = SanitizeUrl(url)

C7_Witness ==
    /\ requests # <<>>
    /\ cmdargs.url = ValueH
    /\ requests[1].target = <<"h", "/", "a", "p", "i", "/", "g", "e", "n", "e", "r", "a", "t", "e">>

C9_ArgumentErrorExitsOne ==
    /\ (Exited /\ \E d \in UsageErrors : stderr = <<d>>) => exitcode = 1
    /\ (Exited /\ exitcode = 0) =>
          \/ cmdargs.help
          \/ /\ response.status_code \in 200..399
             /\ nread = Len(response.body)

(***************************************************************************)
(* C10, as claimed: if line k of a status-200 stream is the first line     *)
(* that is not valid JSON, the run aborts at that line: it ends abnormally *)
(* having read k lines, standard output holds the fragments of lines       *)
(* 1..k-1, and a line that is a JSON object never aborts the run.          *)
(***************************************************************************)
C10_AbortAtFirstInvalidJson ==
    ( /\ Exited
      /\ response.status_code = 200
      /\ FirstInvalidJson(response.body) # 0
      /\ exception \notin TransportErrors ) =>
        /\ nread = FirstInvalidJson(response.body)
        /\ exitcode # 0
        /\ stdout = Fragments(response.body, FirstInvalidJson(response.body) - 1)

(***************************************************************************)
(* C10, amended: if line k of a status-200 stream is the first line that   *)
(* is not a JSON object (invalid JSON, an empty line, or valid JSON of     *)
(* another type), the run aborts at that line with exit status 1: no later *)
(* line is ever read, standard output holds exactly the fragments of lines *)
(* 1..k-1, and a JSON object, with or without a response key, never aborts *)
(* the run.                                                                *)
(***************************************************************************)
C10_AbortAtFirstNonObject ==
    /\ (response.status_code = 200 /\ FirstNonObject(response.body) # 0) =>
          /\ nread <= FirstNonObject(response.body)
          /\ (Exited /\ exception \notin TransportErrors) =>
                /\ nread = FirstNonObject(response.body)
                /\ exitcode = 1
                /\ exception \in {"JSONDecodeError", "AttributeError"}
                /\ stdout = Fragments(response.body, FirstNonObject(response.body) - 1)
                /\ stdout_buffer = <<>>
    /\ exception \in {"JSONDecodeError", "AttributeError"} => ~IsJsonObject(line)

C10_Witness ==
    /\ Exited
    /\ response.status_code = 200
    /\ response.body = <<LineHel, LineEmpty>>
    /\ exception = "JSONDecodeError"
    /\ exitcode = 1
    /\ stdout = <<"H", "e", "l">>

====
